---- MODULE Spec2Model ----
(***************************************************************************)
(* Model of lastodash (src/lastodash.py): the chart composition of a LAS   *)
(* report (build_section_curves and the five build_graph_* procedures),    *)
(* paginate, build_layout and the Dash callbacks of setup_callbacks.       *)
(*                                                                         *)
(* Strings that the code assembles by formatting are sequences of their    *)
(* parts: "{0} [{1}]" is <<key, " [", unit, "]">>.  A Python dict is a     *)
(* record with one field per key the code ever sets; the value "unset"     *)
(* stands for a key that is not in the dict.  None is the record NoneAxis  *)
(* for an axis and the value None for a click timestamp.                   *)
(***************************************************************************)
EXTENDS Integers, Sequences, FiniteSets, TLC

(***************************************************************************)
(* Bounds of the model.                                                    *)
(***************************************************************************)
MaxItems == 120        \* longest item sequence handed to paginate
MaxPageSize == 51      \* largest items_per_page handed to paginate
MaxClicks == 3         \* most button clicks in one behaviour
IndexSlack == 2        \* how far a typed page index may leave [1, page_count]
MaxWell == 101         \* most well entries of a log handed to build_layout

(***************************************************************************)
(* The curves of the code's five chart groups.                             *)
(***************************************************************************)
RpKeys == <<"R09P", "R15P", "R27P", "R39P">>

TitledMnemonics ==
    {"BTVPVS", "DGRC", "EWXT", "ALDCLC", "ALCDLC", "TNPS", "BTCSS", "BTCS"}

RpMnemonics == {RpKeys[i] : i \in 1..4}

Mnemonics == TitledMnemonics \cup RpMnemonics

\* units of the curves of the enumerated logs
LogUnits == {"NONE", "api"}

\* units of the curves handed to build_trace on its own
TraceUnits == {"NONE", "api", "ohmm", "none", ""}

\* the sentinel of las.curves[...].unit that build_trace tests for
UnitNone == "NONE"

Min(a, b) == IF a <= b THEN a ELSE b

Max(a, b) == IF a >= b THEN a ELSE b

(***************************************************************************)
(* Line styles (the SCATTER_LINE_* dicts; dash "unset" is a solid line).   *)
(***************************************************************************)
Line(color, dash) == [color |-> color, dash |-> dash, width |-> 1]

SCATTER_LINE_LINE_BLACK == Line("black", "unset")
SCATTER_LINE_LINE_RED == Line("red", "unset")
SCATTER_LINE_LINE_GREEN == Line("green", "unset")
SCATTER_LINE_LINE_BLUE == Line("blue", "unset")
SCATTER_LINE_LINE_MAGENTA == Line("magenta", "unset")
SCATTER_LINE_DASH_BLACK == Line("black", "dash")
SCATTER_LINE_DASH_RED == Line("red", "dash")
SCATTER_LINE_DOT_BLUE == Line("blue", "dot")
SCATTER_LINE_DASHDOT_GREEN == Line("green", "dashdot")
SCATTER_LINE_DASHDOT_MAGENTA == Line("magenta", "dashdot")

RpLines == <<SCATTER_LINE_DASHDOT_GREEN, SCATTER_LINE_LINE_BLACK,
             SCATTER_LINE_DOT_BLUE, SCATTER_LINE_DASH_RED>>

(***************************************************************************)
(* Axes, traces and graphs.                                                *)
(***************************************************************************)
\* None, where the code holds no axis
NoneAxis == [title |-> <<>>, type |-> "None", side |-> "None", showgrid |-> "None"]

\* None, where build_graph returns no graph
NoneGraph == [id |-> "None", data |-> <<>>, yaxis |-> NoneAxis, yaxis2 |-> NoneAxis]

\* a curve of las.curves: lasio keeps the mnemonic it is found under as its
\* original_mnemonic
Curve(las, key) == [original_mnemonic |-> key, unit |-> las.curves[key]]

\* build_trace without the test for the unit "NONE"
build_trace_always_unit(curve, line, yaxis) ==
    LET key == curve.original_mnemonic
        trace == [curve |-> key, mode |-> "lines", line |-> line, yaxis |-> yaxis]
        axis == [title |-> <<key, " [", curve.unit, "]">>, type |-> "unset",
                 side |-> "unset", showgrid |-> "unset"]
    IN  [trace |-> trace, axis |-> axis]

\* build_trace: the trace (its curve stands for y=data and name=descr) and
\* the axis titled key+unit
build_trace(curve, line, yaxis) ==
    LET key == curve.original_mnemonic
        unit == IF curve.unit # UnitNone THEN <<" [", curve.unit, "]">> ELSE <<>>
        trace == [curve |-> key, mode |-> "lines", line |-> line, yaxis |-> yaxis]
        axis == [title |-> <<key>> \o unit, type |-> "unset",
                 side |-> "unset", showgrid |-> "unset"]
    IN  [trace |-> trace, axis |-> axis]

\* the mutation build_graph applies to an axis when there is a yaxis2
RightNoGrid(axis) == [axis EXCEPT !.side = "right", !.showgrid = "false"]

\* build_graph without its early return for no data
build_graph_placeholder(id, data, yaxis, yaxis2) ==
    [id |-> id,
     data |-> data,
     yaxis |-> IF yaxis2 # NoneAxis THEN RightNoGrid(yaxis) ELSE yaxis,
     yaxis2 |-> yaxis2]

\* build_graph setting yaxis2, not yaxis, to the right side without grid
build_graph_secondary_right(id, data, yaxis, yaxis2) ==
    IF data = <<>>
    THEN NoneGraph
    ELSE [id |-> id,
          data |-> data,
          yaxis |-> yaxis,
          yaxis2 |-> IF yaxis2 # NoneAxis THEN RightNoGrid(yaxis2) ELSE yaxis2]

\* build_graph: None without data; with a yaxis2, it is yaxis that is set to
\* the right side without grid
build_graph(id, data, yaxis, yaxis2) ==
    IF data = <<>>
    THEN NoneGraph
    ELSE [id |-> id,
          data |-> data,
          yaxis |-> IF yaxis2 # NoneAxis THEN RightNoGrid(yaxis) ELSE yaxis,
          yaxis2 |-> yaxis2]

\* the builder with the second curve always on "y2" and yaxis2
build_graph_two_nopromote(id, las, key1, line1, key2, line2) ==
    LET has1 == key1 \in DOMAIN las.curves
        has2 == key2 \in DOMAIN las.curves
        t1 == build_trace(Curve(las, key1), line1, "y")
        data1 == IF has1 THEN <<t1.trace>> ELSE <<>>
        yaxis1 == IF has1 THEN t1.axis ELSE NoneAxis
        t2 == build_trace(Curve(las, key2), line2, "y2")
        data2 == IF has2 THEN data1 \o <<t2.trace>> ELSE data1
        yaxis2 == IF has2 THEN t2.axis ELSE NoneAxis
    IN  build_graph(id, data2, yaxis1, yaxis2)

\* the builder shared by build_graph_dgr, build_graph_ald and build_graph_bat,
\* which differ in their keys, lines and id only
build_graph_two(id, las, key1, line1, key2, line2) ==
    LET has1 == key1 \in DOMAIN las.curves
        has2 == key2 \in DOMAIN las.curves
        t1 == build_trace(Curve(las, key1), line1, "y")
        data1 == IF has1 THEN <<t1.trace>> ELSE <<>>
        yaxis1 == IF has1 THEN t1.axis ELSE NoneAxis
        t2 == build_trace(Curve(las, key2), line2,
                          IF yaxis1 # NoneAxis THEN "y2" ELSE "y")
        data2 == IF has2 THEN data1 \o <<t2.trace>> ELSE data1
        yaxis2 == IF has2 /\ yaxis1 # NoneAxis THEN t2.axis ELSE NoneAxis
        yaxis == IF has2 /\ yaxis1 = NoneAxis THEN t2.axis ELSE yaxis1
    IN  build_graph(id, data2, yaxis, yaxis2)

build_graph_dgr(las) ==
    build_graph_two("las-curves-dgr", las,
                    "BTVPVS", SCATTER_LINE_LINE_MAGENTA,
                    "DGRC", SCATTER_LINE_LINE_GREEN)

build_graph_ald(las) ==
    build_graph_two("las-curves-ald", las,
                    "ALDCLC", SCATTER_LINE_DASH_BLACK,
                    "ALCDLC", SCATTER_LINE_LINE_RED)

build_graph_bat(las) ==
    build_graph_two("las-curves-bat", las,
                    "BTCSS", SCATTER_LINE_LINE_MAGENTA,
                    "BTCS", SCATTER_LINE_LINE_GREEN)

build_graph_ctn(las) ==
    LET has == "TNPS" \in DOMAIN las.curves
        t == build_trace(Curve(las, "TNPS"), SCATTER_LINE_LINE_BLUE, "y")
    IN  build_graph("las-curves-ctn",
                    IF has THEN <<t.trace>> ELSE <<>>,
                    IF has THEN t.axis ELSE NoneAxis,
                    NoneAxis)

\* the axis all RxxP curves share
RpAxis == [title |-> <<"RxxP [ohmm]">>, type |-> "log",
           side |-> "unset", showgrid |-> "unset"]

\* the loop of build_graph_rp over zip(rp_keys, rp_lines), from key k on
RECURSIVE RpTraces(_, _, _)
RpTraces(las, slot, k) ==
    IF k > Len(RpKeys)
    THEN <<>>
    ELSE (IF RpKeys[k] \in DOMAIN las.curves
          THEN <<build_trace(Curve(las, RpKeys[k]), RpLines[k], slot).trace>>
          ELSE <<>>) \o RpTraces(las, slot, k + 1)

\* build_graph_rp with the RxxP axis always yaxis2
build_graph_rp_nopromote(las) ==
    LET hasE == "EWXT" \in DOMAIN las.curves
        t == build_trace(Curve(las, "EWXT"), SCATTER_LINE_DASHDOT_MAGENTA, "y")
        ewxt_axis == [t.axis EXCEPT !.type = "log"]
        yaxis1 == IF hasE THEN ewxt_axis ELSE NoneAxis
        rps == RpTraces(las, IF yaxis1 # NoneAxis THEN "y2" ELSE "y", 1)
        has_rp == rps # <<>>
        data == (IF hasE THEN <<t.trace>> ELSE <<>>) \o rps
        yaxis2 == IF has_rp THEN RpAxis ELSE NoneAxis
    IN  build_graph("las-curves-rp", data, yaxis1, yaxis2)

build_graph_rp(las) ==
    LET hasE == "EWXT" \in DOMAIN las.curves
        t == build_trace(Curve(las, "EWXT"), SCATTER_LINE_DASHDOT_MAGENTA, "y")
        ewxt_axis == [t.axis EXCEPT !.type = "log"]
        yaxis1 == IF hasE THEN ewxt_axis ELSE NoneAxis
        rps == RpTraces(las, IF yaxis1 # NoneAxis THEN "y2" ELSE "y", 1)
        has_rp == rps # <<>>
        data == (IF hasE THEN <<t.trace>> ELSE <<>>) \o rps
        yaxis2 == IF has_rp /\ yaxis1 # NoneAxis THEN RpAxis ELSE NoneAxis
        yaxis == IF has_rp /\ yaxis1 = NoneAxis THEN RpAxis ELSE yaxis1
    IN  build_graph("las-curves-rp", data, yaxis, yaxis2)

(***************************************************************************)
(* paginate.  The state of its loop is the pages closed so far and the     *)
(* page being filled; PaginateLoop runs the loop body for the items lo..hi *)
(* in their order (halving the range keeps the evaluation shallow).        *)
(***************************************************************************)
PaginateBody(st, item, items_per_page) ==
    IF Len(st.page) >= items_per_page
    THEN [pages |-> Append(st.pages, st.page), page |-> <<item>>]
    ELSE [pages |-> st.pages, page |-> Append(st.page, item)]

RECURSIVE PaginateLoop(_, _, _, _, _)
PaginateLoop(items, items_per_page, lo, hi, st) ==
    IF lo > hi
    THEN st
    ELSE IF lo = hi
         THEN PaginateBody(st, items[lo], items_per_page)
         ELSE LET mid == (lo + hi) \div 2
                  left == PaginateLoop(items, items_per_page, lo, mid, st)
              IN  \* the test makes TLC compute left before the later items
                  IF Len(left.page) >= 0
                  THEN PaginateLoop(items, items_per_page, mid + 1, hi, left)
                  ELSE left

\* paginate without the final (if page: pages.append(page))
paginate_noflush(items, items_per_page) ==
    PaginateLoop(items, items_per_page, 1, Len(items),
                 [pages |-> <<>>, page |-> <<>>]).pages

paginate(items, items_per_page) ==
    LET st == PaginateLoop(items, items_per_page, 1, Len(items),
                           [pages |-> <<>>, page |-> <<>>])
    IN  IF st.page # <<>> THEN Append(st.pages, st.page) ELSE st.pages

\* build_section_curves building the density graph before the resistivity one
SectionGraphs_swapped(las) ==
    LET all == <<build_graph_dgr(las), build_graph_ald(las), build_graph_rp(las),
                 build_graph_ctn(las), build_graph_bat(las)>>
    IN  SelectSeq(all, LAMBDA g : g # NoneGraph)

\* the graphs of build_section_curves, in the order it appends them
SectionGraphs(las) ==
    LET all == <<build_graph_dgr(las), build_graph_rp(las), build_graph_ald(las),
                 build_graph_ctn(las), build_graph_bat(las)>>
    IN  SelectSeq(all, LAMBDA g : g # NoneGraph)

CurvesPerPage == 2

WellPerPage == 50

build_section_curves(las) == paginate(SectionGraphs(las), CurvesPerPage)

build_section_well_entry(entry) == [className |-> "las-well-entry", entry |-> entry]

build_section_well(las) ==
    paginate([k \in 1..Len(las.well) |-> build_section_well_entry(las.well[k])],
             WellPerPage)

(***************************************************************************)
(* build_page and build_layout.                                            *)
(***************************************************************************)
build_page(contents, label, page_number) ==
    [id |-> <<"page", page_number>>,
     className |-> <<"las-", label, " page">>,
     title |-> <<"Section: ", label, " (page ", page_number, ")">>,
     contents |-> contents,
     style |-> "unset"]

\* build_layout numbering the curve pages from page_start 1 again
LayoutPages_norestart(las) ==
    LET wp == build_section_well(las)
        cp == build_section_curves(las)
        page_start == 1
        well == [i \in 1..Len(wp) |-> build_page(wp[i], "well", page_start + (i - 1))]
        curves == [i \in 1..Len(cp) |->
                      build_page(cp[i], "curves", page_start + (i - 1))]
    IN  well \o curves

\* the page list well + curves of build_layout
LayoutPages(las) ==
    LET wp == build_section_well(las)
        cp == build_section_curves(las)
        page_start == 1
        well == [i \in 1..Len(wp) |-> build_page(wp[i], "well", page_start + (i - 1))]
        page_start2 == page_start + Len(well)
        curves == [i \in 1..Len(cp) |->
                      build_page(cp[i], "curves", page_start2 + (i - 1))]
    IN  well \o curves

LayoutPageCount(las) == Len(build_section_well(las)) + Len(build_section_curves(las))

(***************************************************************************)
(* The callbacks of setup_callbacks.                                       *)
(***************************************************************************)
\* None of a click timestamp that was never set (timestamps are not negative)
None == -1

Buttons == <<"first", "prev", "next", "last">>

\* Python's (x or 0)
Or0(x) == IF x = None THEN 0 ELSE x

\* the position of the item max() returns: the first of the largest
RECURSIVE ArgMax(_, _, _)
ArgMax(args, k, best) ==
    IF k > Len(args)
    THEN best
    ELSE ArgMax(args, k + 1, IF args[k] > args[best] THEN k ELSE best)

on_page_size_change(page_size) == page_size

\* on_page_visibility_change without the clamp of the index
on_page_visibility_change_noclamp(index, view, i, page_count) ==
    IF view = "all" \/ index = i THEN "block" ELSE "none"

on_page_visibility_change(index, view, i, page_count) ==
    LET clamped == IF index < 1 THEN 1
                   ELSE IF index > page_count THEN page_count
                   ELSE index
    IN  IF view = "all" \/ clamped = i THEN "block" ELSE "none"

\* (timestamp is x), timestamp being the item at position pos of the arguments
\* of max and x the raw input at position k: the same object when max returned
\* that very input; timestamps are epoch milliseconds, which CPython does not
\* intern, and None is never the value (x or 0)
IsInput(raw, pos, k) == raw[k] # None /\ pos = k

\* on_click_move with next returning index+1
on_click_move_nomin(first, prev, next, last, index, page_count) ==
    LET raw == <<first, prev, next, last>>
        args == [k \in 1..4 |-> Or0(raw[k])]
        pos == ArgMax(args, 2, 1)
    IN  IF IsInput(raw, pos, 4) THEN page_count
        ELSE IF IsInput(raw, pos, 3) THEN index + 1
        ELSE IF IsInput(raw, pos, 2) THEN Max(index - 1, 1)
        ELSE 1

on_click_move(first, prev, next, last, index, page_count) ==
    LET raw == <<first, prev, next, last>>
        args == [k \in 1..4 |-> Or0(raw[k])]
        pos == ArgMax(args, 2, 1)
    IN  IF IsInput(raw, pos, 4) THEN page_count
        ELSE IF IsInput(raw, pos, 3) THEN Min(index + 1, page_count)
        ELSE IF IsInput(raw, pos, 2) THEN Max(index - 1, 1)
        ELSE 1

on_page_view_change(view_mode) == IF view_mode = "all" THEN "none" ELSE "flex"

\* the callback's output bound to the property children, which it empties
PageStyleOutput_children(page, style) == [page EXCEPT !.contents = <<>>]

\* Output("page{}".format(i), "style"): what the callback's return value sets
PageStyleOutput(page, style) == [page EXCEPT !.style = style]

\* the visibility callbacks registered for i in range(1, 1+page_count), each
\* writing the component whose id is page{i}
VisibilityCallbacks(pgs, index, view, page_count) ==
    [k \in DOMAIN pgs |->
        IF \E i \in 1..page_count : pgs[k].id = <<"page", i>>
        THEN PageStyleOutput(pgs[k],
                 on_page_visibility_change(index, view, pgs[k].id[2], page_count))
        ELSE pgs[k]]

(***************************************************************************)
(* State.                                                                  *)
(***************************************************************************)
VARIABLES
    las,          \* the loaded log: curves (mnemonic -> unit) and well entries
    built,        \* build_section_curves has run
    section,      \* the pages returned by build_section_curves
    pg,           \* a call of paginate: items, items_per_page, pages, done
    tr,           \* a call of build_trace: curve, line, yaxis, out, done
    className,    \* className of the component "las"
    pages,        \* the page components of the layout, in order
    page_count,   \* page_count of build_layout, as setup_callbacks closes over it
    nav,          \* las-nav: size, view, index, move_style and click timestamps
    clock,        \* the time of the latest click
    loaded        \* the renderer has fired the callbacks for the initial values

vars == <<las, built, section, pg, tr, className, pages, page_count, nav, clock, loaded>>

uiVars == <<className, pages, page_count, nav, clock, loaded>>

\* the values of the variables a specification does not use
NoLog == [curves |-> <<>>, well |-> <<>>]

NoPaginate == [items |-> <<>>, items_per_page |-> 1, pages |-> <<>>, done |-> FALSE]

NoTrace == [curve |-> [original_mnemonic |-> "", unit |-> ""],
            line |-> SCATTER_LINE_LINE_BLACK, yaxis |-> "y",
            out |-> [trace |-> <<>>, axis |-> NoneAxis], done |-> FALSE]

\* logs: every subset of the mnemonics; the titled curves with each unit of
\* LogUnits, the RxxP curves in ohmm
Log(S, units, nwell) ==
    [curves |-> [m \in S |-> IF m \in RpMnemonics THEN "ohmm" ELSE units[m]],
     well |-> [k \in 1..nwell |-> k]]

\* logs of the report model: the first k of these curves, few or many entries
ReportKeys == <<"DGRC", "EWXT", "ALDCLC", "TNPS", "BTCS", "R15P">>

ReportLogs ==
    { Log({ReportKeys[j] : j \in 1..k}, [m \in TitledMnemonics |-> "api"], n) :
      k \in 0..Len(ReportKeys), n \in {0, 1, WellPerPage, WellPerPage + 1} }

\* build_nav: the initial values of the controls
build_nav(pc) ==
    [size |-> "a4", view |-> "one", index |-> 1, index_max |-> pc,
     move_style |-> "unset",
     ts |-> [b \in {Buttons[j] : j \in 1..4} |-> None]]

UiIdle ==
    /\ className = ""
    /\ pages = <<>>
    /\ page_count = 0
    /\ nav = build_nav(0)
    /\ clock = 0
    /\ loaded = FALSE

(***************************************************************************)
(* build_section_curves over every log.                                    *)
(***************************************************************************)
InitCurves ==
    /\ \E T \in SUBSET TitledMnemonics, R \in SUBSET RpMnemonics :
          \E u \in [T -> LogUnits] : las = Log(T \cup R, u, 0)
    /\ built = FALSE
    /\ section = <<>>
    /\ pg = NoPaginate
    /\ tr = NoTrace
    /\ UiIdle

BuildSectionCurves ==
    /\ built = FALSE
    /\ built' = TRUE
    /\ section' = build_section_curves(las)
    /\ UNCHANGED <<las, pg, tr, uiVars>>

NextCurves == BuildSectionCurves

SpecCurves == InitCurves /\ [][NextCurves]_vars

(***************************************************************************)
(* paginate over item sequences and page sizes.                            *)
(***************************************************************************)
InitPaginate ==
    /\ pg \in { [items |-> [k \in 1..n |-> k], items_per_page |-> p,
                 pages |-> <<>>, done |-> FALSE] :
                n \in 0..MaxItems, p \in 1..MaxPageSize }
    /\ las = NoLog
    /\ built = FALSE
    /\ section = <<>>
    /\ tr = NoTrace
    /\ UiIdle

Paginate ==
    /\ pg.done = FALSE
    /\ pg' = [pg EXCEPT !.pages = paginate(pg.items, pg.items_per_page),
                        !.done = TRUE]
    /\ UNCHANGED <<las, built, section, tr, uiVars>>

NextPaginate == Paginate

SpecPaginate == InitPaginate /\ [][NextPaginate]_vars

(***************************************************************************)
(* build_trace over curves and keyword arguments.                          *)
(***************************************************************************)
InitTrace ==
    /\ tr \in { [curve |-> [original_mnemonic |-> m, unit |-> u],
                 line |-> l, yaxis |-> y, out |-> NoTrace.out, done |-> FALSE] :
                m \in Mnemonics, u \in TraceUnits,
                l \in {SCATTER_LINE_LINE_GREEN, SCATTER_LINE_DASH_BLACK},
                y \in {"y", "y2"} }
    /\ las = NoLog
    /\ built = FALSE
    /\ section = <<>>
    /\ pg = NoPaginate
    /\ UiIdle

BuildTrace ==
    /\ tr.done = FALSE
    /\ tr' = [tr EXCEPT !.out = build_trace(tr.curve, tr.line, tr.yaxis),
                        !.done = TRUE]
    /\ UNCHANGED <<las, built, section, pg, uiVars>>

NextTrace == BuildTrace

SpecTrace == InitTrace /\ [][NextTrace]_vars

(***************************************************************************)
(* The report: build_layout, then the renderer's events and the callbacks  *)
(* each of them fires.                                                     *)
(***************************************************************************)
Init ==
    /\ las \in ReportLogs
    /\ built = FALSE
    /\ section = <<>>
    /\ pg = NoPaginate
    /\ tr = NoTrace
    /\ className = "a4"
    /\ pages = LayoutPages(las)
    /\ page_count = LayoutPageCount(las)
    /\ nav = build_nav(LayoutPageCount(las))
    /\ clock = 0
    /\ loaded = FALSE

ClickMove(n) ==
    on_click_move(n.ts["first"], n.ts["prev"], n.ts["next"], n.ts["last"],
                  n.index, page_count)

\* the renderer fires every callback once with the values of the layout;
\* the visibility callbacks fire with the index on_click_move returned
Load ==
    /\ loaded = FALSE
    /\ loaded' = TRUE
    /\ className' = on_page_size_change(nav.size)
    /\ LET index == ClickMove(nav)
       IN  /\ nav' = [nav EXCEPT !.index = index,
                                 !.move_style = on_page_view_change(nav.view)]
           /\ pages' = VisibilityCallbacks(pages, index, nav.view, page_count)
    /\ UNCHANGED <<las, built, section, pg, tr, page_count, clock>>

PageSizeChange ==
    /\ loaded
    /\ \E s \in {"a4", "letter"} :
          /\ nav' = [nav EXCEPT !.size = s]
          /\ className' = on_page_size_change(s)
    /\ UNCHANGED <<las, built, section, pg, tr, pages, page_count, clock, loaded>>

ViewChange ==
    /\ loaded
    /\ \E v \in {"one", "all"} :
          /\ nav' = [nav EXCEPT !.view = v, !.move_style = on_page_view_change(v)]
          /\ pages' = VisibilityCallbacks(pages, nav.index, v, page_count)
    /\ UNCHANGED <<las, built, section, pg, tr, className, page_count, clock, loaded>>

\* a number typed into las-nav-index: min and max of the input do not stop it
IndexChange ==
    /\ loaded
    /\ \E v \in (1 - IndexSlack)..(page_count + IndexSlack) :
          /\ nav' = [nav EXCEPT !.index = v]
          /\ pages' = VisibilityCallbacks(pages, v, nav.view, page_count)
    /\ UNCHANGED <<las, built, section, pg, tr, className, page_count, clock, loaded>>

\* a click sets the button's n_clicks_timestamp to the time, later than every
\* earlier click; on_click_move fires and its index fires the visibility
\* callbacks
Click(b) ==
    /\ loaded
    /\ clock < MaxClicks
    /\ clock' = clock + 1
    /\ LET n1 == [nav EXCEPT !.ts[b] = clock + 1]
           index == ClickMove(n1)
       IN  /\ nav' = [n1 EXCEPT !.index = index]
           /\ pages' = VisibilityCallbacks(pages, index, nav.view, page_count)
    /\ UNCHANGED <<las, built, section, pg, tr, className, page_count, loaded>>

ClickFirst == Click("first")

ClickPrev == Click("prev")

ClickNext == Click("next")

ClickLast == Click("last")

Next ==
    \/ Load
    \/ PageSizeChange
    \/ ViewChange
    \/ IndexChange
    \/ ClickFirst
    \/ ClickPrev
    \/ ClickNext
    \/ ClickLast

Spec == Init /\ [][Next]_vars

\* the report when the page index is moved by the buttons only
NextClicks ==
    \/ Load
    \/ PageSizeChange
    \/ ViewChange
    \/ ClickFirst
    \/ ClickPrev
    \/ ClickNext
    \/ ClickLast

SpecClicks == Init /\ [][NextClicks]_vars

(***************************************************************************)
(* build_layout over logs of every number of well entries.                 *)
(***************************************************************************)
InitLayout ==
    /\ \E k \in 0..Len(ReportKeys), n \in 0..MaxWell :
          las = Log({ReportKeys[j] : j \in 1..k}, [m \in TitledMnemonics |-> "api"], n)
    /\ built = FALSE
    /\ section = <<>>
    /\ pg = NoPaginate
    /\ tr = NoTrace
    /\ UiIdle

\* main: build_layout, whose page_count setup_callbacks registers the
\* callbacks with; the layout has its className from then on
BuildLayout ==
    /\ className = ""
    /\ className' = "a4"
    /\ pages' = LayoutPages(las)
    /\ page_count' = LayoutPageCount(las)
    /\ nav' = build_nav(LayoutPageCount(las))
    /\ UNCHANGED <<las, built, section, pg, tr, clock, loaded>>

NextLayout == BuildLayout

SpecLayout == InitLayout /\ [][NextLayout]_vars

(***************************************************************************)
(* What the properties speak about.                                        *)
(***************************************************************************)
\* the concatenation of seqs[lo], ..., seqs[hi]
RECURSIVE ConcatRange(_, _, _)
ConcatRange(seqs, lo, hi) ==
    IF lo > hi
    THEN <<>>
    ELSE IF lo = hi
         THEN seqs[lo]
         ELSE LET mid == (lo + hi) \div 2
              IN  ConcatRange(seqs, lo, mid) \o ConcatRange(seqs, mid + 1, hi)

Concat(seqs) == ConcatRange(seqs, 1, Len(seqs))

\* the charts of the section, in page order
Charts == Concat(section)

Present == DOMAIN las.curves

GroupIds == <<"las-curves-dgr", "las-curves-rp", "las-curves-ald",
              "las-curves-ctn", "las-curves-bat">>

GroupCandidates == <<{"BTVPVS", "DGRC"},
                     {"EWXT", "R09P", "R15P", "R27P", "R39P"},
                     {"ALDCLC", "ALCDLC"},
                     {"TNPS"},
                     {"BTCSS", "BTCS"}>>

\* the two-curve groups: chart id, primary candidate, secondary candidate
TwoCurveGroups == {<<"las-curves-dgr", "BTVPVS", "DGRC">>,
                   <<"las-curves-ald", "ALDCLC", "ALCDLC">>,
                   <<"las-curves-bat", "BTCSS", "BTCS">>}

ChartsOf(id) == SelectSeq(Charts, LAMBDA g : g.id = id)

TitleOf(m, u) == IF u = "NONE" THEN <<m>> ELSE <<m, " [", u, "]">>

Ceil(a, b) == (a + b - 1) \div b

\* C1: a group has a chart iff one of its candidates is in the curve set (and
\* never more than one chart, never a chart without traces); an empty curve
\* set gives no charts and no curve pages.
C1_ChartIffCandidate ==
    built =>
        /\ \A g \in 1..5 :
              /\ Len(ChartsOf(GroupIds[g])) =
                    (IF GroupCandidates[g] \cap Present # {} THEN 1 ELSE 0)
              /\ \A k \in 1..Len(ChartsOf(GroupIds[g])) :
                    ChartsOf(GroupIds[g])[k].data # <<>>
        /\ \A k \in 1..Len(Charts) : \E g \in 1..5 : Charts[k].id = GroupIds[g]
        /\ (Present = {} => Charts = <<>> /\ section = <<>>)

C1_Witness ==
    /\ built
    /\ Present = {"ALCDLC", "R27P"}
    /\ Len(Charts) = 2
    /\ ChartsOf("las-curves-dgr") = <<>>

\* C2: with the secondary candidate of a two-curve group but not its primary,
\* the group's chart has the secondary's trace on slot "y", its yaxis is the
\* one titled from that curve, and it has no yaxis2.
C2_SecondaryPromoted ==
    built =>
        \A grp \in TwoCurveGroups :
            (grp[3] \in Present /\ grp[2] \notin Present) =>
                /\ Len(ChartsOf(grp[1])) = 1
                /\ LET g == ChartsOf(grp[1])[1]
                   IN  /\ Len(g.data) = 1
                       /\ g.data[1].curve = grp[3]
                       /\ g.data[1].yaxis = "y"
                       /\ g.yaxis.title = TitleOf(grp[3], las.curves[grp[3]])
                       /\ g.yaxis2 = NoneAxis

C2_Witness ==
    /\ built
    /\ "BTCS" \in Present
    /\ "BTCSS" \notin Present
    /\ Len(ChartsOf("las-curves-bat")) = 1
    /\ ChartsOf("las-curves-bat")[1].data[1].yaxis = "y"

\* the chart of a two-curve group with both candidates: one chart, the primary
\* candidate on "y" with yaxis, the secondary on "y2" with yaxis2
BothAxes(grp, g) ==
    /\ Len(g.data) = 2
    /\ g.data[1].curve = grp[2] /\ g.data[1].yaxis = "y"
    /\ g.data[2].curve = grp[3] /\ g.data[2].yaxis = "y2"
    /\ g.yaxis.title = TitleOf(grp[2], las.curves[grp[2]])
    /\ g.yaxis2.title = TitleOf(grp[3], las.curves[grp[3]])

C4_ResistivityAxis ==
    built =>
        LET S == Present \cap RpMnemonics
            hasE == "EWXT" \in Present
            cs == ChartsOf("las-curves-rp")
        IN  /\ (cs # <<>>) <=> (S # {} \/ hasE)
            /\ Len(cs) <= 1
            /\ (S # {} /\ cs # <<>>) =>
                  LET g == cs[1]
                      rp == {k \in 1..Len(g.data) : g.data[k].curve \in RpMnemonics}
                      slot == IF hasE THEN "y2" ELSE "y"
                      axis == IF hasE THEN g.yaxis2 ELSE g.yaxis
                  IN  /\ {g.data[k].curve : k \in rp} = S
                      /\ Cardinality(rp) = Cardinality(S)
                      /\ \A k \in rp : g.data[k].yaxis = slot
                      /\ axis.title = <<"RxxP [ohmm]">>
                      /\ axis.type = "log"
                      /\ (~hasE => g.yaxis2 = NoneAxis)
                      /\ (hasE => /\ g.yaxis.title = TitleOf("EWXT", las.curves["EWXT"])
                                  /\ g.data[1].curve = "EWXT"
                                  /\ g.data[1].yaxis = "y")

C4_Witness ==
    /\ built
    /\ Present \cap GroupCandidates[2] = {"EWXT", "R09P", "R39P"}
    /\ Len(ChartsOf("las-curves-rp")) = 1
    /\ Len(ChartsOf("las-curves-rp")[1].data) = 3
    /\ ChartsOf("las-curves-rp")[1].yaxis2.type = "log"

\* C5: paginate returns ceil(len/n) chunks, all of size n but possibly the
\* last, none empty, whose concatenation is the items; no chunks for no items;
\* 120 items by 50 give sizes 50, 50, 20.
C5_Paginate ==
    pg.done =>
        LET n == pg.items_per_page
            ps == pg.pages
        IN  /\ Len(ps) = Ceil(Len(pg.items), n)
            /\ \A i \in 1..Len(ps) : Len(ps[i]) >= 1 /\ Len(ps[i]) <= n
            /\ \A i \in 1..(Len(ps) - 1) : Len(ps[i]) = n
            /\ Concat(ps) = pg.items
            /\ (pg.items = <<>> => ps = <<>>)
            /\ (Len(pg.items) = 120 /\ n = 50 =>
                   [i \in 1..Len(ps) |-> Len(ps[i])] = <<50, 50, 20>>)

C5_Witness ==
    /\ pg.done
    /\ Len(pg.items) = 120
    /\ pg.items_per_page = 50
    /\ Len(pg.pages) = 3
    /\ Len(pg.pages[3]) = 20

\* the ids of the groups from g on that have a candidate in the curve set
RECURSIVE ExpectedIds(_)
ExpectedIds(g) ==
    IF g > 5
    THEN <<>>
    ELSE (IF GroupCandidates[g] \cap Present # {} THEN <<GroupIds[g]>> ELSE <<>>)
         \o ExpectedIds(g + 1)

\* C6: the charts come in the order gamma/porosity, resistivity, density,
\* neutron, sonic, restricted to the groups with a candidate present; the
\* curve set {BTVPVS, DGRC, TNPS} gives gamma/porosity with both axes, then
\* neutron with its primary axis only.
C6_GroupOrder ==
    built =>
        /\ [k \in 1..Len(Charts) |-> Charts[k].id] = ExpectedIds(1)
        /\ (Present = {"BTVPVS", "DGRC", "TNPS"} =>
               /\ Len(Charts) = 2
               /\ Charts[1].id = "las-curves-dgr"
               /\ Charts[1].yaxis # NoneAxis /\ Charts[1].yaxis2 # NoneAxis
               /\ Charts[2].id = "las-curves-ctn"
               /\ Charts[2].yaxis # NoneAxis /\ Charts[2].yaxis2 = NoneAxis)

C6_Witness ==
    /\ built
    /\ Present = {"BTVPVS", "DGRC", "TNPS"}
    /\ Len(Charts) = 2
    /\ Len(section) = 1

\* C7: the axis title build_trace gives a non-resistivity curve is the
\* mnemonic alone for the unit "NONE" and mnemonic, " [", unit, "]" otherwise.
C7_AxisTitle ==
    (tr.done /\ tr.curve.original_mnemonic \notin RpMnemonics) =>
        tr.out.axis.title =
            (IF tr.curve.unit = "NONE"
             THEN <<tr.curve.original_mnemonic>>
             ELSE <<tr.curve.original_mnemonic, " [", tr.curve.unit, "]">>)

C7_Witness ==
    /\ tr.done
    /\ tr.curve.original_mnemonic = "TNPS"
    /\ tr.curve.unit = "NONE"
    /\ tr.out.axis.title = <<"TNPS">>

\* the pages without their presentation state
PageContents ==
    [k \in DOMAIN pages |->
        [id |-> pages[k].id, className |-> pages[k].className,
         title |-> pages[k].title, contents |-> pages[k].contents]]

\* C8: no event changes the pages, their order, their numbering or their
\* contents, the page count or the log; events change presentation only.
C8_EventsKeepPages ==
    [][/\ PageContents' = PageContents
       /\ page_count' = page_count
       /\ las' = las]_vars

C8_Witness ==
    /\ loaded
    /\ clock = MaxClicks
    /\ nav.size = "letter"
    /\ nav.view = "all"
    /\ nav.index = page_count
    /\ page_count >= 3
    /\ \A k \in DOMAIN pages : pages[k].style = "block"

Clamp(index) ==
    IF index < 1 THEN 1 ELSE IF index > page_count THEN page_count ELSE index

Displayed == {k \in DOMAIN pages : pages[k].style = "block"}

\* C9: with at least one page, in view "one" the one page displayed is the
\* page numbered by the index clamped to [1, page_count]; in view "all" every
\* page is displayed.
C9_Visibility ==
    (loaded /\ page_count >= 1) =>
        /\ nav.view = "one" =>
              /\ Cardinality(Displayed) = 1
              /\ \A k \in Displayed : pages[k].id = <<"page", Clamp(nav.index)>>
              /\ \A k \in DOMAIN pages \ Displayed : pages[k].style = "none"
        /\ nav.view = "all" => Displayed = DOMAIN pages

C9_Witness ==
    /\ loaded
    /\ page_count >= 2
    /\ nav.view = "one"
    /\ nav.index > page_count
    /\ Displayed = {page_count}

\* C10: with at least one page and clicks only, the page index stays within
\* [1, page_count]; first gives 1, last page_count, next one more but at most
\* page_count, prev one less but at least 1.
C10_IndexInRange ==
    /\ [](page_count >= 1 => nav.index \in 1..page_count)
    /\ [][page_count >= 1 =>
            /\ nav.ts["first"]' # nav.ts["first"] => nav.index' = 1
            /\ nav.ts["last"]' # nav.ts["last"] => nav.index' = page_count
            /\ nav.ts["next"]' # nav.ts["next"] =>
                  nav.index' = (IF nav.index + 1 <= page_count
                                THEN nav.index + 1 ELSE page_count)
            /\ nav.ts["prev"]' # nav.ts["prev"] =>
                  nav.index' = (IF nav.index - 1 >= 1 THEN nav.index - 1 ELSE 1)]_vars

C10_Witness ==
    /\ loaded
    /\ page_count >= 3
    /\ nav.ts["next"] = 2
    /\ nav.ts["prev"] = 3
    /\ nav.ts["first"] = 1
    /\ nav.index = 1

\* the page numbers the visibility callbacks are registered for
RegisteredPages == 1..page_count

\* C11: the pages of build_layout are numbered 1..page_count, each number
\* once, the W = ceil(entries / 50) well pages first and the
\* C = ceil(charts / 2) curve pages after them, page_count = W + C; so every
\* page id a visibility callback is registered for exists exactly once.
C11_PageNumbering ==
    className # "" =>
        LET W == Ceil(Len(las.well), 50)
            C == Ceil(Len(ExpectedIds(1)), 2)
        IN  /\ page_count = W + C
            /\ Len(pages) = page_count
            /\ \A k \in 1..Len(pages) :
                  /\ pages[k].id = <<"page", k>>
                  /\ pages[k].title[4] = k
                  /\ pages[k].title[2] = (IF k <= W THEN "well" ELSE "curves")
                  /\ pages[k].className[2] = (IF k <= W THEN "well" ELSE "curves")
            /\ \A i \in RegisteredPages :
                  Cardinality({k \in 1..Len(pages) : pages[k].id = <<"page", i>>}) = 1

C11_Witness ==
    /\ className = "a4"
    /\ Len(las.well) = 101
    /\ page_count = 6
    /\ pages[3].className[2] = "well"
    /\ pages[4].id = <<"page", 4>>
    /\ pages[4].className[2] = "curves"
    /\ pages[6].title[4] = 6

====
